---- MODULE Spec2Model ----
(***************************************************************************)
(* Model of packages/compiler/src/render3/r3_deferred_blocks.ts:           *)
(* createDeferredBlock and the parsers it drives (parseConnectedBlocks,    *)
(* parsePlaceholderBlock, parseLoadingBlock, parseErrorBlock,              *)
(* parsePrimaryTriggers).                                                  *)
(*                                                                         *)
(* A parameter expression is a sequence of lexer tokens: words and single  *)
(* whitespace characters.  A value of type T|null is <<>> for null and     *)
(* <<v>> for the value v.  A thrown Error is a result record whose threw   *)
(* field is TRUE.  One action is one iteration of a loop of the source.    *)
(***************************************************************************)
EXTENDS Integers, Sequences, FiniteSets, TLC

\* Largest number of syntax nodes of one input: connected blocks, their
\* parameters and the parameters of the primary block, counted together.
MaxNodes == 4

null == <<>>

Some(v) == <<v>>

----------------------------------------------------------------------------
(* Lexer tokens and the regular expressions of the source.                 *)

\* \s of the regular expressions
IsSeparator(tok) == tok \in {" ", "\t"}

\* /^minimum\s/
MINIMUM_PARAMETER_PATTERN(expression) ==
    /\ Len(expression) >= 2
    /\ expression[1] = "minimum"
    /\ IsSeparator(expression[2])

\* /^after\s/
AFTER_PARAMETER_PATTERN(expression) ==
    /\ Len(expression) >= 2
    /\ expression[1] = "after"
    /\ IsSeparator(expression[2])

\* /when\s/, without the anchor
WHEN_PARAMETER_PATTERN_Unanchored(expression) ==
    \E k \in 1..(Len(expression) - 1) :
       expression[k] = "when" /\ IsSeparator(expression[k + 1])

\* /^when\s/
WHEN_PARAMETER_PATTERN(expression) ==
    /\ Len(expression) >= 2
    /\ expression[1] = "when"
    /\ IsSeparator(expression[2])

\* /^on\s/
ON_PARAMETER_PATTERN(expression) ==
    /\ Len(expression) >= 2
    /\ expression[1] = "on"
    /\ IsSeparator(expression[2])

\* Position of the first token at or after position k that is no separator
\* (Len + 1 when there is none): the end of a run matched by \s+ or \s*.
RECURSIVE SkipSeparators(_, _)
SkipSeparators(expression, k) ==
    IF k > Len(expression) \/ ~IsSeparator(expression[k])
    THEN k
    ELSE SkipSeparators(expression, k + 1)

\* /^prefetch\s+<keyword>\s/
PrefetchPattern(expression, keyword) ==
    LET k == SkipSeparators(expression, 2) IN
    /\ Len(expression) >= 2
    /\ expression[1] = "prefetch"
    /\ k > 2
    /\ k + 1 <= Len(expression)
    /\ expression[k] = keyword
    /\ IsSeparator(expression[k + 1])

\* /^prefetch\s+when\s/
PREFETCH_WHEN_PATTERN(expression) == PrefetchPattern(expression, "when")

\* /^prefetch\s+on\s/
PREFETCH_ON_PATTERN(expression) == PrefetchPattern(expression, "on")

\* The text of an expression, as it is interpolated into a message.
RECURSIVE Text(_)
Text(expression) ==
    IF expression = <<>> THEN "" ELSE Head(expression) \o Text(Tail(expression))

isConnectedDeferLoopBlock(name) ==
    name = "placeholder" \/ name = "loading" \/ name = "error"

ParseError(span, msg) == [span |-> span, msg |-> msg]

----------------------------------------------------------------------------
(* The trigger grammar collaborator, r3_deferred_triggers.ts: the duration *)
(* parser and the helper that finds where a parameter's value starts.      *)

\* Position of the first separator at or after position k (Len + 1 when
\* there is none).
RECURSIVE FirstSeparator(_, _)
FirstSeparator(value, k) ==
    IF k > Len(value) \/ IsSeparator(value[k])
    THEN k
    ELSE FirstSeparator(value, k + 1)

\* Where the value that follows the leading keyword starts.
getTriggerParametersStart(value) == SkipSeparators(value, FirstSeparator(value, 1))

\* String.prototype.slice(start), on 1-based positions
slice(value, start) == SubSeq(value, start, Len(value))

\* The durations the duration parser accepts, in milliseconds.
DurationMs == ("100ms" :> 100) @@ ("500ms" :> 500) @@ ("1s" :> 1000)

\* A numeric duration, or null for text that is no duration.
parseDeferredTime(value) ==
    IF Len(value) = 1 /\ value[1] \in DOMAIN DurationMs
    THEN Some(DurationMs[value[1]])
    ELSE null

----------------------------------------------------------------------------
(* The sub-parsers of the connected blocks.  Each returns Returned(node)   *)
(* or Threw(message).                                                      *)

Returned(node) == [threw |-> FALSE, node |-> Some(node), message |-> ""]

Threw(message) == [threw |-> TRUE, node |-> null, message |-> message]

\* A loop that ignores a second `minimum` parameter instead of throwing.
RECURSIVE PlaceholderParametersKeepFirst(_, _, _)
PlaceholderParametersKeepFirst(parameters, k, minimumTime) ==
    IF k > Len(parameters)
    THEN [threw |-> FALSE, message |-> "", minimumTime |-> minimumTime]
    ELSE LET param == parameters[k]
             parsedTime == parseDeferredTime(
                 slice(param.expression, getTriggerParametersStart(param.expression)))
         IN  IF MINIMUM_PARAMETER_PATTERN(param.expression)
             THEN IF minimumTime # null
                  THEN PlaceholderParametersKeepFirst(parameters, k + 1, minimumTime)
                  ELSE IF parsedTime = null
                  THEN [threw |-> TRUE, minimumTime |-> minimumTime, message |->
                        "Could not parse time value of parameter \"minimum\""]
                  ELSE PlaceholderParametersKeepFirst(parameters, k + 1, parsedTime)
             ELSE [threw |-> TRUE, minimumTime |-> minimumTime, message |->
                   "Unrecognized parameter in @placeholder block: \""
                       \o Text(param.expression) \o "\""]

\* The for loop of parsePlaceholderBlock from parameter k on.
RECURSIVE PlaceholderParameters(_, _, _)
PlaceholderParameters(parameters, k, minimumTime) ==
    IF k > Len(parameters)
    THEN [threw |-> FALSE, message |-> "", minimumTime |-> minimumTime]
    ELSE LET param == parameters[k]
             parsedTime == parseDeferredTime(
                 slice(param.expression, getTriggerParametersStart(param.expression)))
         IN  IF MINIMUM_PARAMETER_PATTERN(param.expression)
             THEN IF minimumTime # null
                  THEN [threw |-> TRUE, minimumTime |-> minimumTime, message |->
                        "@placeholder block can only have one \"minimum\" parameter"]
                  ELSE IF parsedTime = null
                  THEN [threw |-> TRUE, minimumTime |-> minimumTime, message |->
                        "Could not parse time value of parameter \"minimum\""]
                  ELSE PlaceholderParameters(parameters, k + 1, parsedTime)
             ELSE [threw |-> TRUE, minimumTime |-> minimumTime, message |->
                   "Unrecognized parameter in @placeholder block: \""
                       \o Text(param.expression) \o "\""]

parsePlaceholderBlock(ast) ==
    LET r == PlaceholderParameters(ast.parameters, 1, null) IN
    IF r.threw
    THEN Threw(r.message)
    ELSE Returned([type |-> "DeferredBlockPlaceholder",
                   minimumTime |-> r.minimumTime,
                   startSourceSpan |-> ast.startSourceSpan])

\* The for loop of parseLoadingBlock from parameter k on.
RECURSIVE LoadingParameters(_, _, _, _)
LoadingParameters(parameters, k, afterTime, minimumTime) ==
    IF k > Len(parameters)
    THEN [threw |-> FALSE, message |-> "",
          afterTime |-> afterTime, minimumTime |-> minimumTime]
    ELSE LET param == parameters[k]
             parsedTime == parseDeferredTime(
                 slice(param.expression, getTriggerParametersStart(param.expression)))
             throw(message) == [threw |-> TRUE, message |-> message,
                                afterTime |-> afterTime, minimumTime |-> minimumTime]
         IN  IF AFTER_PARAMETER_PATTERN(param.expression)
             THEN IF afterTime # null
                  THEN throw("@loading block can only have one \"after\" parameter")
                  ELSE IF parsedTime = null
                  THEN throw("Could not parse time value of parameter \"after\"")
                  ELSE LoadingParameters(parameters, k + 1, parsedTime, minimumTime)
             ELSE IF MINIMUM_PARAMETER_PATTERN(param.expression)
             THEN IF minimumTime # null
                  THEN throw("@loading block can only have one \"minimum\" parameter")
                  ELSE IF parsedTime = null
                  THEN throw("Could not parse time value of parameter \"minimum\"")
                  ELSE LoadingParameters(parameters, k + 1, afterTime, parsedTime)
             ELSE throw("Unrecognized parameter in @loading block: \""
                            \o Text(param.expression) \o "\"")

parseLoadingBlock(ast) ==
    LET r == LoadingParameters(ast.parameters, 1, null, null) IN
    IF r.threw
    THEN Threw(r.message)
    ELSE Returned([type |-> "DeferredBlockLoading",
                   afterTime |-> r.afterTime,
                   minimumTime |-> r.minimumTime,
                   startSourceSpan |-> ast.startSourceSpan])

\* A length check that is off by one.
parseErrorBlockOffByOne(ast) ==
    IF Len(ast.parameters) > 1
    THEN Threw("@error block cannot have parameters")
    ELSE Returned([type |-> "DeferredBlockError",
                   startSourceSpan |-> ast.startSourceSpan])

parseErrorBlock(ast) ==
    IF Len(ast.parameters) > 0
    THEN Threw("@error block cannot have parameters")
    ELSE Returned([type |-> "DeferredBlockError",
                   startSourceSpan |-> ast.startSourceSpan])

----------------------------------------------------------------------------
(* The trigger grammar collaborator: parseWhenTrigger and parseOnTrigger.  *)
(* d is the state the dispatcher shares with it: the two trigger sets, the *)
(* diagnostics and the log of the delegations made; target names the set   *)
(* that was passed, "triggers" or "prefetchTriggers".                      *)

\* The declarative triggers the grammar knows.
OnTriggerTypes == {"idle", "hover", "immediate", "timer", "interaction", "viewport"}

\* Registers a trigger under its kind; a kind already in the set is an error.
trackTrigger(name, target, d, span, trigger) ==
    IF name \in DOMAIN d[target]
    THEN [d EXCEPT !.errors =
             Append(@, ParseError(span, "Duplicate \"" \o name \o "\" trigger is not allowed"))]
    ELSE [d EXCEPT ![target] = (name :> trigger) @@ @]

parseWhenTrigger(param, target, d) ==
    LET logged == [d EXCEPT !.calls = Append(@,
                      [fn |-> "parseWhenTrigger", param |-> param.sourceSpan,
                       target |-> target, placeholder |-> null])]
    IN  trackTrigger("when", target, logged, param.sourceSpan,
                     [type |-> "BoundDeferredTrigger", sourceSpan |-> param.sourceSpan])

parseOnTrigger(param, target, d, placeholder) ==
    LET expression == param.expression
        \* the token after the keyword `on`, which follows `prefetch` if present
        onAt == IF expression[1] = "on" THEN 1 ELSE SkipSeparators(expression, 2)
        at == SkipSeparators(expression, onAt + 1)
        logged == [d EXCEPT !.calls = Append(@,
                      [fn |-> "parseOnTrigger", param |-> param.sourceSpan,
                       target |-> target, placeholder |-> placeholder])]
    IN  IF at <= Len(expression) /\ expression[at] \in OnTriggerTypes
        THEN trackTrigger(expression[at], target, logged, param.sourceSpan,
                          [type |-> expression[at], sourceSpan |-> param.sourceSpan])
        ELSE [logged EXCEPT !.errors =
                 Append(@, ParseError(param.sourceSpan, "Unrecognized trigger type"))]

----------------------------------------------------------------------------
(* The inputs: every list of connected blocks and every parameter list of  *)
(* the primary block with at most MaxNodes syntax nodes between them.      *)

BlockNames == {"placeholder", "loading", "error", "unknown-block"}

\* Parameter texts of connected blocks
BlockParameterExpressions ==
    { <<"minimum", " ", "100ms">>, <<"minimum", " ", "1s">>, <<"minimum", " ", "soon">>,
      <<"after", " ", "500ms">>, <<"foo">> }

\* Parameter texts of the primary block
TriggerExpressions ==
    { <<"when", " ", "x">>, <<"on", " ", "idle">>, <<"on", " ", "hover">>,
      <<"prefetch", " ", "when", " ", "y">>, <<"prefetch", " ", " ", "on", " ", "hover">>,
      <<"unknown", " ", "foo">>, <<"whenever">> }

\* The syntax nodes of a list of connected blocks, in source order: the name
\* that opens a block, or the text of a parameter of the block opened last.
BlockNodes ==
    [name : BlockNames] \cup [expression : BlockParameterExpressions]

IsBlockStart(node) == "name" \in DOMAIN node

\* n nodes that read as a list of blocks: none, or opening with a block.
WellFormed(nodes, n) == IF n = 0 THEN TRUE ELSE IsBlockStart(nodes[1])

\* html.BlockParameter[]: each text with its source span
Parameters(exprs) ==
    [k \in 1..Len(exprs) |->
        [expression |-> exprs[k], sourceSpan |-> [node |-> "parameter", index |-> k]]]

\* html.Block[] read from the nodes: each block with its parameters and its
\* start source span.
RECURSIVE Blocks(_, _, _)
Blocks(nodes, k, list) ==
    IF k > Len(nodes) THEN list
    ELSE IF IsBlockStart(nodes[k])
    THEN Blocks(nodes, k + 1,
             Append(list, [name |-> nodes[k].name, parameters |-> <<>>,
                           startSourceSpan |-> [node |-> "block", index |-> Len(list) + 1]]))
    ELSE Blocks(nodes, k + 1,
             [list EXCEPT ![Len(list)].parameters =
                 Append(@, [expression |-> nodes[k].expression,
                            sourceSpan |-> [node |-> "parameter", index |-> Len(@) + 1]])])

----------------------------------------------------------------------------
(* createDeferredBlock as a state machine.                                 *)

VARIABLES
    ast,               \* the primary block: its parameters
    connectedBlocks,   \* the connected blocks
    pc,                \* the statement of createDeferredBlock in progress, or "done"
                       \* after its return, or "raised" after an exception left it
    i,                 \* connected blocks taken by the loop of parseConnectedBlocks
    j,                 \* parameters taken by the loop of parsePrimaryTriggers
    placeholder, loading, error,
    errors,
    triggers, prefetchTriggers,
    calls,             \* the delegations to the trigger grammar collaborator, in order
    result             \* what createDeferredBlock returned, null before it returns

vars == <<ast, connectedBlocks, pc, i, j, placeholder, loading, error, errors,
          triggers, prefetchTriggers, calls, result>>

\* The primary triggers dispatched before the connected blocks are classified.
createDeferredBlockTriggersFirst ==
    <<"parsePrimaryTriggers", "parseConnectedBlocks", "return">>

\* The statements of createDeferredBlock, in the order it runs them.
createDeferredBlock == <<"parseConnectedBlocks", "parsePrimaryTriggers", "return">>

\* The statement that follows statement s.
StatementAfter(s) ==
    LET k == CHOOSE n \in 1..Len(createDeferredBlock) : createDeferredBlock[n] = s
    IN  createDeferredBlock[k + 1]

Init ==
    /\ \E bw \in 0..MaxNodes : \E pw \in 0..(MaxNodes - bw) :
          \E nodes \in [1..bw -> BlockNodes], exprs \in [1..pw -> TriggerExpressions] :
             /\ WellFormed(nodes, bw)
             /\ ast = [parameters |-> Parameters(exprs)]
             /\ connectedBlocks = Blocks(nodes, 1, <<>>)
    /\ pc = createDeferredBlock[1]
    /\ i = 0
    /\ j = 0
    /\ placeholder = null
    /\ loading = null
    /\ error = null
    /\ errors = <<>>
    /\ triggers = <<>>
    /\ prefetchTriggers = <<>>
    /\ calls = <<>>
    /\ result = null

\* A catch clause that throws the exception on.
CatchRethrow(block, e, errs) ==
    [errors |-> errs, uncaught |-> Some(e.message)]

\* The catch clause of parseConnectedBlocks: the diagnostics after it, and
\* the exception that leaves the function (none).
Catch(block, e, errs) ==
    [errors |-> Append(errs, ParseError(block.startSourceSpan, e.message)),
     uncaught |-> null]

\* A switch case that parses every block of the kind, so that the last one
\* parsed is the one kept.
SwitchCaseLastWins(block, slot, parsed, errs) ==
    IF parsed.threw
    THEN [slot |-> slot, caught |-> TRUE] @@ Catch(block, parsed, errs)
    ELSE [slot |-> parsed.node, uncaught |-> null, caught |-> FALSE, errors |-> errs]

\* A switch case that skips a block whose slot is filled without a diagnostic.
SwitchCaseSilentDuplicate(block, slot, parsed, errs) ==
    IF slot # null
    THEN [slot |-> slot, uncaught |-> null, caught |-> FALSE, errors |-> errs]
    ELSE IF parsed.threw
    THEN [slot |-> slot, caught |-> TRUE] @@ Catch(block, parsed, errs)
    ELSE [slot |-> parsed.node, uncaught |-> null, caught |-> FALSE, errors |-> errs]

\* One case of the switch, inside the try: slot is the variable of the
\* block's kind, parsed the result of the kind's sub-parser.
SwitchCase(block, slot, parsed, errs) ==
    IF slot # null
    THEN [slot |-> slot, uncaught |-> null, caught |-> FALSE,
          errors |-> Append(errs, ParseError(block.startSourceSpan,
                       "@defer block can only have one @" \o block.name \o " block"))]
    ELSE IF parsed.threw
    THEN [slot |-> slot, caught |-> TRUE] @@ Catch(block, parsed, errs)
    ELSE [slot |-> parsed.node, uncaught |-> null, caught |-> FALSE, errors |-> errs]

\* A try statement around the loop: a caught exception ends the loop.
AfterIterationOutsideLoop(r) ==
    IF r.uncaught # null THEN "raised"
    ELSE IF r.caught THEN StatementAfter("parseConnectedBlocks")
    ELSE "parseConnectedBlocks"

\* Where control goes after the iteration of the loop that ended as r: out
\* of createDeferredBlock with an uncaught exception, else to the loop's head
\* (the try statement is inside the loop).
AfterIteration(r) ==
    IF r.uncaught # null THEN "raised" ELSE "parseConnectedBlocks"

\* A loop that goes on to the next sibling where the source breaks.
Continue == "parseConnectedBlocks"

\* Where the break statement goes: out of the loop, to the return of
\* parseConnectedBlocks.
Break == StatementAfter("parseConnectedBlocks")

UnrecognizedBlock ==
    /\ pc = "parseConnectedBlocks"
    /\ i < Len(connectedBlocks)
    /\ LET block == connectedBlocks[i + 1] IN
          /\ ~isConnectedDeferLoopBlock(block.name)
          /\ errors' = Append(errors, ParseError(block.startSourceSpan,
                           "Unrecognized block \"@" \o block.name \o "\""))
    /\ i' = i + 1
    /\ pc' = Break
    /\ UNCHANGED <<ast, connectedBlocks, j, placeholder, loading, error,
                   triggers, prefetchTriggers, calls, result>>

PlaceholderCase ==
    /\ pc = "parseConnectedBlocks"
    /\ i < Len(connectedBlocks)
    /\ LET block == connectedBlocks[i + 1]
           r == SwitchCase(block, placeholder, parsePlaceholderBlock(block), errors)
       IN  /\ block.name = "placeholder"
           /\ placeholder' = r.slot
           /\ errors' = r.errors
           /\ pc' = AfterIteration(r)
    /\ i' = i + 1
    /\ UNCHANGED <<ast, connectedBlocks, j, loading, error,
                   triggers, prefetchTriggers, calls, result>>

LoadingCase ==
    /\ pc = "parseConnectedBlocks"
    /\ i < Len(connectedBlocks)
    /\ LET block == connectedBlocks[i + 1]
           r == SwitchCase(block, loading, parseLoadingBlock(block), errors)
       IN  /\ block.name = "loading"
           /\ loading' = r.slot
           /\ errors' = r.errors
           /\ pc' = AfterIteration(r)
    /\ i' = i + 1
    /\ UNCHANGED <<ast, connectedBlocks, j, placeholder, error,
                   triggers, prefetchTriggers, calls, result>>

ErrorCase ==
    /\ pc = "parseConnectedBlocks"
    /\ i < Len(connectedBlocks)
    /\ LET block == connectedBlocks[i + 1]
           r == SwitchCase(block, error, parseErrorBlock(block), errors)
       IN  /\ block.name = "error"
           /\ error' = r.slot
           /\ errors' = r.errors
           /\ pc' = AfterIteration(r)
    /\ i' = i + 1
    /\ UNCHANGED <<ast, connectedBlocks, j, placeholder, loading,
                   triggers, prefetchTriggers, calls, result>>

\* The loop is over: parseConnectedBlocks returns the three slots.
ConnectedBlocksReturn ==
    /\ pc = "parseConnectedBlocks"
    /\ i = Len(connectedBlocks)
    /\ pc' = StatementAfter("parseConnectedBlocks")
    /\ UNCHANGED <<ast, connectedBlocks, i, j, placeholder, loading, error, errors,
                   triggers, prefetchTriggers, calls, result>>

\* A loop body that drops a parameter no pattern matches without a diagnostic.
DispatchTriggerSilent(param, d, placeholderNode) ==
    IF WHEN_PARAMETER_PATTERN(param.expression)
    THEN parseWhenTrigger(param, "triggers", d)
    ELSE IF ON_PARAMETER_PATTERN(param.expression)
    THEN parseOnTrigger(param, "triggers", d, placeholderNode)
    ELSE IF PREFETCH_WHEN_PATTERN(param.expression)
    THEN parseWhenTrigger(param, "prefetchTriggers", d)
    ELSE IF PREFETCH_ON_PATTERN(param.expression)
    THEN parseOnTrigger(param, "prefetchTriggers", d, placeholderNode)
    ELSE d

\* The body of the loop of parsePrimaryTriggers for one parameter.
DispatchTrigger(param, d, placeholderNode) ==
    IF WHEN_PARAMETER_PATTERN(param.expression)
    THEN parseWhenTrigger(param, "triggers", d)
    ELSE IF ON_PARAMETER_PATTERN(param.expression)
    THEN parseOnTrigger(param, "triggers", d, placeholderNode)
    ELSE IF PREFETCH_WHEN_PATTERN(param.expression)
    THEN parseWhenTrigger(param, "prefetchTriggers", d)
    ELSE IF PREFETCH_ON_PATTERN(param.expression)
    THEN parseOnTrigger(param, "prefetchTriggers", d, placeholderNode)
    ELSE [d EXCEPT !.errors = Append(@, ParseError(param.sourceSpan, "Unrecognized trigger"))]

PrimaryTrigger ==
    /\ pc = "parsePrimaryTriggers"
    /\ j < Len(ast.parameters)
    /\ LET d == DispatchTrigger(ast.parameters[j + 1],
                    [triggers |-> triggers, prefetchTriggers |-> prefetchTriggers,
                     errors |-> errors, calls |-> calls],
                    placeholder)
       IN  /\ triggers' = d.triggers
           /\ prefetchTriggers' = d.prefetchTriggers
           /\ errors' = d.errors
           /\ calls' = d.calls
    /\ j' = j + 1
    /\ UNCHANGED <<ast, connectedBlocks, pc, i, placeholder, loading, error, result>>

\* The loop is over: parsePrimaryTriggers returns the two trigger sets.
PrimaryTriggersReturn ==
    /\ pc = "parsePrimaryTriggers"
    /\ j = Len(ast.parameters)
    /\ pc' = StatementAfter("parsePrimaryTriggers")
    /\ UNCHANGED <<ast, connectedBlocks, i, j, placeholder, loading, error, errors,
                   triggers, prefetchTriggers, calls, result>>

\* new t.DeferredBlock(...) and the return of createDeferredBlock
DeferredBlock ==
    [type |-> "DeferredBlock", triggers |-> triggers, prefetchTriggers |-> prefetchTriggers,
     placeholder |-> placeholder, loading |-> loading, error |-> error]

Return ==
    /\ pc = "return"
    /\ result' = Some([node |-> DeferredBlock, errors |-> errors])
    /\ pc' = "done"
    /\ UNCHANGED <<ast, connectedBlocks, i, j, placeholder, loading, error, errors,
                   triggers, prefetchTriggers, calls>>

Next ==
    \/ UnrecognizedBlock
    \/ PlaceholderCase
    \/ LoadingCase
    \/ ErrorCase
    \/ ConnectedBlocksReturn
    \/ PrimaryTrigger
    \/ PrimaryTriggersReturn
    \/ Return

Spec == Init /\ [][Next]_vars

----------------------------------------------------------------------------
(* Vocabulary of the properties.                                           *)

BlockSpan(k) == [node |-> "block", index |-> k]

ParameterSpan(k) == [node |-> "parameter", index |-> k]

\* The positions in errors of the diagnostics at a span
DiagnosticsAt(span) == {n \in 1..Len(errors) : errors[n].span = span}

\* The positions in errors of the diagnostics with a message
DiagnosticsSaying(msg) == {n \in 1..Len(errors) : errors[n].msg = msg}

Recognized(name) == name \in {"placeholder", "loading", "error"}

Unrecognized == {k \in 1..Len(connectedBlocks) : ~Recognized(connectedBlocks[k].name)}

\* Block k comes after a block with an unrecognized name.
AfterUnrecognized(k) == \E u \in Unrecognized : u < k

\* The slot of a kind of connected block
Slot(name) ==
    CASE name = "placeholder" -> placeholder
      [] name = "loading" -> loading
      [] name = "error" -> error

\* Block k is the block kept in the slot of its kind.
Kept(k) ==
    /\ Recognized(connectedBlocks[k].name)
    /\ Slot(connectedBlocks[k].name) # null
    /\ Slot(connectedBlocks[k].name)[1].startSourceSpan = BlockSpan(k)

\* The names of the connected blocks, in order
Names == [k \in 1..Len(connectedBlocks) |-> connectedBlocks[k].name]

\* The parameter texts of connected block k, in order
Texts(k) ==
    [n \in 1..Len(connectedBlocks[k].parameters) |->
        connectedBlocks[k].parameters[n].expression]

\* What the sub-parser of a block's kind makes of the block
SubParser(block) ==
    CASE block.name = "placeholder" -> parsePlaceholderBlock(block)
      [] block.name = "loading" -> parseLoadingBlock(block)
      [] block.name = "error" -> parseErrorBlock(block)

\* Block k has a recognized name and its sub-parser returns a node for it.
Parses(k) ==
    /\ Recognized(connectedBlocks[k].name)
    /\ ~SubParser(connectedBlocks[k]).threw

\* The connected blocks with a name
OfKind(name) == {k \in 1..Len(connectedBlocks) : connectedBlocks[k].name = name}

\* Block k is handed to its sub-parser: its name is recognized, no block
\* with an unrecognized name comes before it and no earlier block of its kind
\* was parsed into the slot.
Attempted(k) ==
    /\ Recognized(connectedBlocks[k].name)
    /\ ~AfterUnrecognized(k)
    /\ \A e \in OfKind(connectedBlocks[k].name) : e < k => ~Parses(e)

Min(S) == CHOOSE x \in S : \A y \in S : x <= y

Max(S) == CHOOSE x \in S : \A y \in S : y <= x

DuplicateBlockMessage(name) == "@defer block can only have one @" \o name \o " block"

\* Block k ended in the slot of its kind or in a diagnostic.
HasOutcome(k) == Kept(k) \/ DiagnosticsAt(BlockSpan(k)) # {}

UnrecognizedBlockMessages ==
    {"Unrecognized block \"@" \o name \o "\"" : name \in BlockNames}

----------------------------------------------------------------------------
\* C1: no connected block after the first block with an unrecognized name is
\* parsed or adds a diagnostic, and that block adds the one diagnostic
\* `Unrecognized block "@<name>"`; so [valid placeholder, unrecognized, valid
\* loading] returns the placeholder, no loading and that one diagnostic.
C1_StopsAtUnrecognizedBlock ==
    /\ \A k \in 1..Len(connectedBlocks) :
          AfterUnrecognized(k) => DiagnosticsAt(BlockSpan(k)) = {} /\ ~Kept(k)
    /\ \A n \in 1..Len(errors) :
          errors[n].msg \in UnrecognizedBlockMessages =>
             /\ errors[n].span.node = "block"
             /\ errors[n].span.index \in Unrecognized
             /\ \A u \in Unrecognized : errors[n].span.index <= u
             /\ errors[n].msg =
                   "Unrecognized block \"@" \o connectedBlocks[errors[n].span.index].name \o "\""
             /\ \A m \in 1..Len(errors) : errors[m].msg \in UnrecognizedBlockMessages => m = n
    /\ pc = "done" /\ Unrecognized # {} =>
          \E n \in 1..Len(errors) : errors[n].msg \in UnrecognizedBlockMessages
    /\ /\ pc = "done"
       /\ Len(connectedBlocks) = 3
       /\ Names = <<"placeholder", "unknown-block", "loading">>
       /\ Texts(1) \in {<<>>, <<<<"minimum", " ", "100ms">>>>}
       => /\ result[1].node.placeholder # null
          /\ result[1].node.loading = null
          /\ DiagnosticsSaying("Unrecognized block \"@unknown-block\"") = {1}
          /\ Cardinality({n \in 1..Len(errors) : errors[n].span.node = "block"}) = 1

C1_Witness ==
    /\ pc = "done"
    /\ Len(connectedBlocks) = 3
    /\ Names = <<"placeholder", "unknown-block", "loading">>
    /\ Texts(1) = <<<<"minimum", " ", "100ms">>>>
    /\ Texts(3) = <<>>
    /\ result[1].node.placeholder # null
    /\ result[1].node.loading = null
    /\ Len(result[1].errors) = 1

----------------------------------------------------------------------------
\* C2 as stated: a list with two blocks of one recognized kind gives exactly
\* one diagnostic `@defer block can only have one @<kind> block` and keeps
\* the first of the two (here only for lists in which no block with an
\* unrecognized name comes before the second of the two).
C2_Original ==
    pc = "done" =>
       \A name \in {"placeholder", "loading", "error"} :
          Cardinality(OfKind(name)) = 2 /\ ~AfterUnrecognized(Max(OfKind(name))) =>
             /\ Cardinality(DiagnosticsSaying(DuplicateBlockMessage(name))) = 1
             /\ Kept(Min(OfKind(name)))

\* C2 as amended: of two blocks of one recognized kind, when the first is
\* parsed without raising and no block with an unrecognized name comes before
\* the second, the second adds the one diagnostic `@defer block can only have
\* one @<kind> block`, the first is kept and the sibling after the second is
\* processed; when the first raised, the slot is still empty at the second,
\* which is parsed and adds no such diagnostic.
C2_FirstParsedOccurrenceKept ==
    pc = "done" =>
       \A name \in {"placeholder", "loading", "error"} :
          Cardinality(OfKind(name)) = 2 /\ ~AfterUnrecognized(Max(OfKind(name))) =>
             LET first == Min(OfKind(name))
                 second == Max(OfKind(name))
             IN  IF Parses(first)
                 THEN /\ DiagnosticsSaying(DuplicateBlockMessage(name))
                            = DiagnosticsAt(BlockSpan(second))
                      /\ Cardinality(DiagnosticsAt(BlockSpan(second))) = 1
                      /\ Kept(first)
                      /\ result[1].node[name] = SubParser(connectedBlocks[first]).node
                      /\ second < Len(connectedBlocks) => HasOutcome(second + 1)
                 ELSE /\ DiagnosticsSaying(DuplicateBlockMessage(name)) = {}
                      /\ ~Kept(first)
                      /\ Parses(second) => Kept(second)

C2_Witness ==
    /\ pc = "done"
    /\ Len(connectedBlocks) = 3
    /\ Names = <<"placeholder", "placeholder", "loading">>
    /\ Texts(1) = <<>>
    /\ Texts(2) = <<<<"minimum", " ", "100ms">>>>
    /\ Kept(1)
    /\ Kept(3)
    /\ Len(errors) = 1
    /\ errors[1] = ParseError(BlockSpan(2), "@defer block can only have one @placeholder block")

----------------------------------------------------------------------------
\* Parameter texts `minimum <duration>` with a duration that parses
MinimumTexts == {<<"minimum", " ", "100ms">>, <<"minimum", " ", "1s">>}

\* The duration such a text states, in milliseconds
Milliseconds(text) == IF text[3] = "100ms" THEN 100 ELSE 1000

\* Block k is a placeholder block with `minimum <duration>` twice.
MinimumTwice(k) ==
    /\ connectedBlocks[k].name = "placeholder"
    /\ Len(connectedBlocks[k].parameters) = 2
    /\ Texts(k)[1] \in MinimumTexts
    /\ Texts(k)[2] \in MinimumTexts

DuplicateMinimumMessage == "@placeholder block can only have one \"minimum\" parameter"

\* C3 as stated: a placeholder block with `minimum <duration>` twice adds the
\* one diagnostic `@placeholder block can only have one "minimum" parameter`
\* and the returned placeholder has the first duration as its minimumTime.
C3_Original ==
    pc = "done" =>
       \A k \in 1..Len(connectedBlocks) :
          MinimumTwice(k) /\ OfKind("placeholder") = {k} /\ ~AfterUnrecognized(k) =>
             /\ Cardinality(DiagnosticsAt(BlockSpan(k))) = 1
             /\ DiagnosticsAt(BlockSpan(k)) \subseteq DiagnosticsSaying(DuplicateMinimumMessage)
             /\ result[1].node.placeholder # null
             /\ result[1].node.placeholder[1].minimumTime
                   = Some(Milliseconds(Texts(k)[1]))

\* C3 as amended: a placeholder block with `minimum <duration>` twice that is
\* handed to its sub-parser adds the one diagnostic `@placeholder block can
\* only have one "minimum" parameter` and fills no slot: no duration of it is
\* retained, and the returned placeholder is null when it is the only
\* placeholder block.
C3_DuplicateMinimumFillsNoSlot ==
    pc = "done" =>
       \A k \in 1..Len(connectedBlocks) :
          MinimumTwice(k) /\ Attempted(k) =>
             /\ Cardinality(DiagnosticsAt(BlockSpan(k))) = 1
             /\ DiagnosticsAt(BlockSpan(k)) \subseteq DiagnosticsSaying(DuplicateMinimumMessage)
             /\ ~Kept(k)
             /\ OfKind("placeholder") = {k} => result[1].node.placeholder = null

C3_Witness ==
    /\ pc = "done"
    /\ Names = <<"placeholder">>
    /\ Texts(1) = <<<<"minimum", " ", "100ms">>, <<"minimum", " ", "1s">>>>
    /\ result[1].node.placeholder = null
    /\ result[1].errors = <<ParseError(BlockSpan(1), DuplicateMinimumMessage)>>

----------------------------------------------------------------------------
\* Block k is handed to its sub-parser, which raises.
Raises(k) == Attempted(k) /\ SubParser(connectedBlocks[k]).threw

\* C4: no exception leaves createDeferredBlock: it returns a node and the
\* diagnostics, also when there are diagnostics, and every failure a
\* sub-parser raised is among the diagnostics returned.
C4_NeverRaises ==
    /\ pc # "raised"
    /\ pc = "done" =>
          /\ result # null
          /\ result[1].node.type = "DeferredBlock"
          /\ result[1].errors = errors
          /\ \A k \in 1..Len(connectedBlocks) :
                Raises(k) =>
                   \E n \in 1..Len(result[1].errors) :
                      result[1].errors[n] =
                         ParseError(BlockSpan(k), SubParser(connectedBlocks[k]).message)

C4_Witness ==
    /\ pc = "done"
    /\ result # null
    /\ \E k \in 1..Len(connectedBlocks) : Raises(k)
    /\ Len(result[1].errors) = 2
    /\ result[1].node.loading # null

----------------------------------------------------------------------------
ErrorWithParameters(k) ==
    /\ connectedBlocks[k].name = "error"
    /\ Len(connectedBlocks[k].parameters) > 0

ErrorParametersMessage == "@error block cannot have parameters"

\* C7 as stated: every error block with parameters adds exactly one
\* diagnostic `@error block cannot have parameters`, never none, and is not
\* kept.
C7_Original ==
    pc = "done" =>
       \A k \in 1..Len(connectedBlocks) :
          ErrorWithParameters(k) =>
             /\ Cardinality(DiagnosticsAt(BlockSpan(k))) = 1
             /\ DiagnosticsAt(BlockSpan(k)) \subseteq DiagnosticsSaying(ErrorParametersMessage)
             /\ ~Kept(k)

\* C7 as amended: an error block with parameters that is handed to its
\* sub-parser adds exactly one diagnostic `@error block cannot have
\* parameters`, one per block; one that finds the error slot filled adds the
\* one diagnostic `@defer block can only have one @error block` instead; one
\* after a block with an unrecognized name adds none; none is ever kept.
C7_ErrorBlockParametersRejected ==
    pc = "done" =>
       /\ \A k \in 1..Len(connectedBlocks) :
             ErrorWithParameters(k) =>
                /\ ~Kept(k)
                /\ Attempted(k) =>
                      /\ Cardinality(DiagnosticsAt(BlockSpan(k))) = 1
                      /\ DiagnosticsAt(BlockSpan(k))
                            \subseteq DiagnosticsSaying(ErrorParametersMessage)
                /\ ~Attempted(k) /\ ~AfterUnrecognized(k) =>
                      /\ Cardinality(DiagnosticsAt(BlockSpan(k))) = 1
                      /\ DiagnosticsAt(BlockSpan(k))
                            \subseteq DiagnosticsSaying(DuplicateBlockMessage("error"))
                /\ AfterUnrecognized(k) => DiagnosticsAt(BlockSpan(k)) = {}
       /\ Cardinality(DiagnosticsSaying(ErrorParametersMessage))
             = Cardinality({k \in 1..Len(connectedBlocks) :
                               ErrorWithParameters(k) /\ Attempted(k)})

C7_Witness ==
    /\ pc = "done"
    /\ Names = <<"error">>
    /\ Len(connectedBlocks[1].parameters) = 2
    /\ result[1].node.error = null
    /\ result[1].errors = <<ParseError(BlockSpan(1), ErrorParametersMessage)>>

----------------------------------------------------------------------------
\* The blocks of a kind that parse and are reached by the loop
Parsed(name) == {k \in OfKind(name) : Parses(k) /\ ~AfterUnrecognized(k)}

\* C9: a block whose sub-parser raises adds exactly one diagnostic, with the
\* raised message at the block's start span, and fills no slot; every slot
\* holds the first block of its kind that parses, whatever raised before or
\* after it; so [malformed placeholder, valid loading, valid error] returns
\* the loading and the error.
C9_FailureConfinedToBlock ==
    pc = "done" =>
       /\ \A k \in 1..Len(connectedBlocks) :
             Raises(k) =>
                /\ Cardinality(DiagnosticsAt(BlockSpan(k))) = 1
                /\ \A n \in DiagnosticsAt(BlockSpan(k)) :
                      errors[n].msg = SubParser(connectedBlocks[k]).message
                /\ ~Kept(k)
       /\ \A name \in {"placeholder", "loading", "error"} :
             result[1].node[name] =
                IF Parsed(name) = {} THEN null
                ELSE SubParser(connectedBlocks[Min(Parsed(name))]).node
       /\ /\ Len(connectedBlocks) = 3
          /\ Names = <<"placeholder", "loading", "error">>
          /\ Texts(1) \in {<<<<"foo">>>>, <<<<"minimum", " ", "soon">>>>}
          /\ Texts(2) = <<>>
          /\ Texts(3) = <<>>
          => /\ result[1].node.placeholder = null
             /\ result[1].node.loading # null
             /\ result[1].node.error # null
             /\ Cardinality({n \in 1..Len(result[1].errors) :
                                result[1].errors[n].span.node = "block"}) = 1

C9_Witness ==
    /\ pc = "done"
    /\ Len(connectedBlocks) = 3
    /\ Names = <<"placeholder", "loading", "error">>
    /\ Texts(1) = <<<<"minimum", " ", "soon">>>>
    /\ result[1].node.placeholder = null
    /\ result[1].node.loading # null
    /\ result[1].node.error # null
    /\ result[1].errors =
          <<ParseError(BlockSpan(1), "Could not parse time value of parameter \"minimum\"")>>

----------------------------------------------------------------------------
\* C10: every block the loop has taken, which are the blocks up to and
\* including the first with an unrecognized name, either fills the slot of
\* its kind and adds no diagnostic or adds exactly one diagnostic and fills
\* no slot; the filled slots and the diagnostics of the blocks add up to the
\* blocks taken; a slot is filled only by a block that parses, so a valid
\* block after a failed block of its kind is kept without a diagnostic.
C10_OneOutcomePerBlock ==
    /\ \A k \in 1..Len(connectedBlocks) :
          IF k <= i
          THEN \/ Kept(k) /\ DiagnosticsAt(BlockSpan(k)) = {}
               \/ ~Kept(k) /\ Cardinality(DiagnosticsAt(BlockSpan(k))) = 1
          ELSE ~Kept(k) /\ DiagnosticsAt(BlockSpan(k)) = {}
    /\ Cardinality({name \in {"placeholder", "loading", "error"} : Slot(name) # null})
          + Cardinality({n \in 1..Len(errors) : errors[n].span.node = "block"}) = i
    /\ \A k \in 1..Len(connectedBlocks) : Kept(k) => Parses(k)
    /\ \A u \in Unrecognized : i <= u
    /\ pc = "done" =>
          i = IF Unrecognized = {} THEN Len(connectedBlocks) ELSE Min(Unrecognized)
    /\ pc = "done" =>
          \A name \in {"placeholder", "loading", "error"} :
             \A k \in OfKind(name) :
                Attempted(k) /\ Parses(k) =>
                   Kept(k) /\ DiagnosticsSaying(DuplicateBlockMessage(name))
                                 \subseteq {n \in 1..Len(errors) : errors[n].span.index > k}

C10_Witness ==
    /\ pc = "done"
    /\ Names = <<"placeholder", "placeholder">>
    /\ Texts(1) = <<<<"foo">>>>
    /\ Texts(2) = <<>>
    /\ Kept(2)
    /\ i = 2
    /\ errors = <<ParseError(BlockSpan(1), "Unrecognized parameter in @placeholder block: \"foo\"")>>

----------------------------------------------------------------------------
\* The parameter texts of the primary block, in order
TriggerTexts == [k \in 1..Len(ast.parameters) |-> ast.parameters[k].expression]

\* The delegation each parameter text of the primary block calls for
Expected(text) ==
    CASE text = <<"when", " ", "x">> ->
            [fn |-> "parseWhenTrigger", target |-> "triggers"]
      [] text \in {<<"on", " ", "idle">>, <<"on", " ", "hover">>} ->
            [fn |-> "parseOnTrigger", target |-> "triggers"]
      [] text = <<"prefetch", " ", "when", " ", "y">> ->
            [fn |-> "parseWhenTrigger", target |-> "prefetchTriggers"]
      [] text = <<"prefetch", " ", " ", "on", " ", "hover">> ->
            [fn |-> "parseOnTrigger", target |-> "prefetchTriggers"]
      [] OTHER -> [fn |-> "none", target |-> "none"]

\* The positions in calls of the delegations of parameter k
CallsFor(k) == {n \in 1..Len(calls) : calls[n].param = ParameterSpan(k)}

\* The kinds a trigger set holds that were registered for parameter k
RegisteredFor(set, k) == {kind \in DOMAIN set : set[kind].sourceSpan = ParameterSpan(k)}

\* C5: each parameter of the primary block taken by the loop has exactly one
\* outcome: a when/on parameter is delegated once with the immediate set, a
\* prefetch when/prefetch on parameter once with the prefetch set, any other
\* adds `Unrecognized trigger` and is not delegated; [when, on, prefetch when,
\* prefetch on] fills each set with its two triggers and adds no diagnostic.
C5_EachParameterDispatchedOnce ==
    /\ \A k \in 1..Len(ast.parameters) :
          LET expected == Expected(TriggerTexts[k]) IN
          IF k > j
          THEN CallsFor(k) = {} /\ DiagnosticsAt(ParameterSpan(k)) = {}
          ELSE IF expected.fn = "none"
          THEN /\ CallsFor(k) = {}
               /\ Cardinality(DiagnosticsAt(ParameterSpan(k))) = 1
               /\ DiagnosticsAt(ParameterSpan(k)) \subseteq DiagnosticsSaying("Unrecognized trigger")
          ELSE /\ Cardinality(CallsFor(k)) = 1
               /\ \A n \in CallsFor(k) :
                     calls[n].fn = expected.fn /\ calls[n].target = expected.target
               /\ DiagnosticsAt(ParameterSpan(k)) \cap DiagnosticsSaying("Unrecognized trigger") = {}
               /\ expected.target = "triggers" => RegisteredFor(prefetchTriggers, k) = {}
               /\ expected.target = "prefetchTriggers" => RegisteredFor(triggers, k) = {}
    /\ /\ pc = "done"
       /\ Len(ast.parameters) = 4
       /\ TriggerTexts = << <<"when", " ", "x">>, <<"on", " ", "idle">>,
                            <<"prefetch", " ", "when", " ", "y">>,
                            <<"prefetch", " ", " ", "on", " ", "hover">> >>
       => /\ DOMAIN result[1].node.triggers = {"when", "idle"}
          /\ DOMAIN result[1].node.prefetchTriggers = {"when", "hover"}
          /\ \A n \in 1..Len(result[1].errors) : result[1].errors[n].span.node # "parameter"

C5_Witness ==
    /\ pc = "done"
    /\ Len(ast.parameters) = 4
    /\ TriggerTexts = << <<"when", " ", "x">>, <<"on", " ", "idle">>,
                         <<"prefetch", " ", "when", " ", "y">>,
                         <<"prefetch", " ", " ", "on", " ", "hover">> >>
    /\ DOMAIN result[1].node.triggers = {"when", "idle"}
    /\ DOMAIN result[1].node.prefetchTriggers = {"when", "hover"}
    /\ result[1].errors = <<>>
    /\ Len(calls) = 4

----------------------------------------------------------------------------
\* The parameters of the primary block that no trigger pattern matches
UnrecognizedTriggers ==
    {k \in 1..Len(ast.parameters) : Expected(TriggerTexts[k]).fn = "none"}

\* C6: a parameter of the primary block that matches no trigger pattern adds
\* exactly one diagnostic `Unrecognized trigger` at its span and nothing to
\* either trigger set, and the loop goes on: every parameter is taken, and
\* every later parameter is delegated or reported in its turn.
C6_UnrecognizedTriggerReported ==
    /\ \A k \in UnrecognizedTriggers :
          k <= j =>
             /\ Cardinality(DiagnosticsAt(ParameterSpan(k))) = 1
             /\ \A n \in DiagnosticsAt(ParameterSpan(k)) : errors[n].msg = "Unrecognized trigger"
             /\ CallsFor(k) = {}
             /\ RegisteredFor(triggers, k) = {}
             /\ RegisteredFor(prefetchTriggers, k) = {}
    /\ Cardinality(DiagnosticsSaying("Unrecognized trigger"))
          = Cardinality({k \in UnrecognizedTriggers : k <= j})
    /\ pc = "done" =>
          /\ j = Len(ast.parameters)
          /\ \A k \in 1..Len(ast.parameters) :
                k \notin UnrecognizedTriggers => Cardinality(CallsFor(k)) = 1

C6_Witness ==
    /\ pc = "done"
    /\ Len(ast.parameters) = 2
    /\ TriggerTexts = << <<"unknown", " ", "foo">>, <<"on", " ", "idle">> >>
    /\ result[1].errors = <<ParseError(ParameterSpan(1), "Unrecognized trigger")>>
    /\ DOMAIN result[1].node.triggers = {"idle"}
    /\ DOMAIN result[1].node.prefetchTriggers = {}

----------------------------------------------------------------------------
\* The blocks the loop of parseConnectedBlocks takes before it is over
BlocksToTake == IF Unrecognized = {} THEN Len(connectedBlocks) ELSE Min(Unrecognized)

\* C8: in errors, every diagnostic of a connected block comes before every
\* diagnostic of a parameter of the primary block, and each group is in
\* input order; no parameter is dispatched before the connected blocks are
\* classified, and every `on` trigger is handed the placeholder that the
\* classification resolved.
C8_ConnectedBlocksBeforeTriggers ==
    /\ \A a, b \in 1..Len(errors) :
          a < b =>
             /\ errors[a].span.node = "parameter" => errors[b].span.node = "parameter"
             /\ errors[a].span.node = errors[b].span.node =>
                   errors[a].span.index <= errors[b].span.index
    /\ j > 0 \/ calls # <<>> => i = BlocksToTake
    /\ \A n \in 1..Len(calls) :
          calls[n].fn = "parseOnTrigger" =>
             calls[n].placeholder =
                IF Parsed("placeholder") = {} THEN null
                ELSE SubParser(connectedBlocks[Min(Parsed("placeholder"))]).node
    /\ pc = "done" =>
          /\ result[1].errors = errors
          /\ \A n \in 1..Len(calls) :
                calls[n].fn = "parseOnTrigger" =>
                   calls[n].placeholder = result[1].node.placeholder

C8_Witness ==
    /\ pc = "done"
    /\ Names = <<"placeholder", "unknown-block">>
    /\ Len(ast.parameters) = 2
    /\ TriggerTexts = << <<"on", " ", "idle">>, <<"unknown", " ", "foo">> >>
    /\ result[1].errors = <<ParseError(BlockSpan(2), "Unrecognized block \"@unknown-block\""),
                            ParseError(ParameterSpan(2), "Unrecognized trigger")>>
    /\ calls[1].placeholder # null
    /\ calls[1].placeholder = result[1].node.placeholder

====
